---------------------------- MODULE Spec2Model ----------------------------
(***************************************************************************)
(* Model of skills/adding-tests/scripts/detect_test_framework.py: the two  *)
(* evidence probes, the five ecosystem detectors and the aggregator.       *)
(*                                                                         *)
(* The project root is a finite list of files in directory search order.   *)
(* A file holds its directory, its name, its bytes (chunks of valid UTF-8  *)
(* text and chunks of bytes that are not valid UTF-8) and how the file     *)
(* system answers when it is accessed.  One call of detect_test_framework  *)
(* is a run of the state machine: the existence check of the root, one     *)
(* step per detector of the loop, and the final selection.                 *)
(***************************************************************************)
EXTENDS Integers, Sequences, FiniteSets, TLC

VARIABLES
    project_path,   \* the argument: "" stands for None (current directory)
    rootKind,       \* what base_path is: "missing", "file" or "dir"
    rootSearch,     \* whether the root directory may be searched (x bit)
    files,          \* the files under the root, in search order
    pc,             \* position in detect_test_framework
    idx,            \* index of the next detector of the loop (1..5)
    calls,          \* the detectors invoked so far, in order
    results,        \* the list `results` of detect_test_framework
    probes,         \* every file system access made so far, in order
    verdict         \* the returned dictionary, NoVerdict until it returns

vars == <<project_path, rootKind, rootSearch, files, pc, idx, calls, results,
          probes, verdict>>

---------------------------------------------------------------------------
(* Bounds of the model *)

\* files of the catalogue in one root
MaxFiles == 2
\* files matching one search pattern in one root
MaxGlob == 6

---------------------------------------------------------------------------
(* Text *)

\* Python's `pattern in content` on str: pattern is a contiguous substring.
Contains(content, pattern) ==
    \E i \in 1..(Len(content) - Len(pattern) + 1) :
        SubSeq(content, i, i + Len(pattern) - 1) = pattern

\* A chunk of a file's bytes: valid UTF-8 text, or bytes that are not.
Txt(s) == [valid |-> TRUE, bytes |-> s]
Bad == [valid |-> FALSE, bytes |-> "?"]

\* bytes.decode('utf-8', errors='ignore'), as read_text does: the bytes that
\* are not valid UTF-8 are dropped and the text around them is joined.
RECURSIVE decode_ignore(_)
decode_ignore(chunks) ==
    IF chunks = <<>> THEN ""
    ELSE (IF Head(chunks).valid THEN Head(chunks).bytes ELSE "")
         \o decode_ignore(Tail(chunks))

\* A strict decoder for comparison: any invalid byte makes the read fail.
HasInvalid(chunks) == \E i \in 1..Len(chunks) : ~chunks[i].valid

\* fnmatch of a name against a pattern of the form  pre*suf
Matches(name, pre, suf) ==
    /\ Len(name) >= Len(pre) + Len(suf)
    /\ SubSeq(name, 1, Len(pre)) = pre
    /\ SubSeq(name, Len(name) - Len(suf) + 1, Len(name)) = suf

---------------------------------------------------------------------------
(* The file system *)

\* A file: dir is "" for a file directly under the root, else "sub/".
\* st is how the file system answers for it:
\*   "ok"         a readable regular file
\*   "noread"     stat succeeds, reading raises (permission, I/O error, or
\*                the file vanished after the existence check)
\*   "isdir"      the path is a directory: stat succeeds, reading raises
\*   "vanished"   listed by the search, gone when stat is called
\*   "statdenied" its directory may not be searched: stat raises
\*                PermissionError
File(dir, name, content, st) ==
    [dir |-> dir, name |-> name, path |-> dir \o name, content |-> content,
     st |-> st]

FullPath(f) == f.path

Lookup(fs, path) == { i \in 1..Len(fs) : FullPath(fs[i]) = path }

\* os.stat(path) as Path.exists() sees it: "raise" (an OSError that
\* Path.exists does not swallow: EACCES), "absent" or "present".
Stat(fs, search, path) ==
    IF ~search THEN "raise"
    ELSE LET hits == Lookup(fs, path) IN
         IF hits = {} THEN "absent"
         ELSE LET f == fs[CHOOSE i \in hits : TRUE] IN
              CASE f.st = "statdenied" -> "raise"
                [] f.st = "vanished"   -> "absent"
                [] OTHER               -> "present"

\* base_path.rglob(pre*suf): the paths whose name matches, in search order.
\* A root that is not a directory has nothing below it.
\* Directories that may not be searched are not descended into.
RECURSIVE rglob(_, _, _, _)
rglob(fs, search, pre, suf) ==
    IF fs = <<>> THEN <<>>
    ELSE (IF /\ Matches(Head(fs).name, pre, suf)
             /\ (search \/ Head(fs).dir = "")
          THEN <<FullPath(Head(fs))>>
          ELSE <<>>) \o rglob(Tail(fs), search, pre, suf)

---------------------------------------------------------------------------
(* Evidence probes.  A probe yields its value, whether an exception left   *)
(* it, and the file system accesses it made.                               *)

Ev(op, path) == [op |-> op, path |-> path]

Probe(val, raised, log) == [val |-> val, raised |-> raised, log |-> log]

\* check_file_exists: any((base_path / f).exists() for f in files).  The
\* generator stops at the first file that exists; a stat that raises leaves
\* the function.
RECURSIVE ExistsFrom(_, _, _, _)
ExistsFrom(fs, search, paths, log) ==
    IF paths = <<>> THEN Probe(FALSE, FALSE, log)
    ELSE LET s  == Stat(fs, search, Head(paths))
             lg == Append(log, Ev("stat", Head(paths)))
         IN  CASE s = "raise"   -> Probe(FALSE, TRUE, lg)
               [] s = "present" -> Probe(TRUE, FALSE, lg)
               [] OTHER -> ExistsFrom(fs, search, Tail(paths), lg)

check_file_exists(fs, search, paths) == ExistsFrom(fs, search, paths, <<>>)

\* read_text with errors='strict': invalid bytes raise UnicodeDecodeError
read_text_strict(f) ==
    [raised |-> f.st \in {"noread", "isdir"} \/ HasInvalid(f.content),
     text   |-> decode_ignore(f.content)]

\* file_path.read_text(encoding='utf-8', errors='ignore')
read_text(f) ==
    [raised |-> f.st \in {"noread", "isdir"},
     text   |-> decode_ignore(f.content)]

\* any(pattern in content for pattern in patterns)
AnyPattern(content, patterns) ==
    \E k \in 1..Len(patterns) : Contains(content, patterns[k])

\* check_file_contains: the existence check is outside the try block, the
\* read and the search are inside it.
check_file_contains(fs, search, path, patterns) ==
    LET s == Stat(fs, search, path) IN
    CASE s = "raise"  -> Probe(FALSE, TRUE, <<Ev("stat", path)>>)
      [] s = "absent" -> Probe(FALSE, FALSE, <<Ev("stat", path)>>)
      [] OTHER ->
           LET f == fs[CHOOSE i \in Lookup(fs, path) : TRUE]
               r == read_text(f)
               log == <<Ev("stat", path), Ev("read", path)>>
           IN  IF r.raised THEN Probe(FALSE, FALSE, log)
               ELSE Probe(AnyPattern(r.text, patterns), FALSE, log)

---------------------------------------------------------------------------
(* Rule cascades.  A detector is its statements in order; each statement   *)
(* is one rule.  The first rule whose probe holds returns its outcome.     *)

\* a detector's "no signal": Python's None
None == <<>>

Rule(op, paths, patterns, out, skip) ==
    [op |-> op, paths |-> paths, patterns |-> patterns, out |-> out,
     skip |-> skip]

\* if check_file_exists(base_path, paths): return out
RExists(paths, out) == Rule("exists", paths, <<>>, out, 0)
\* if check_file_contains(path, patterns): return out
RContains(path, patterns, out) == Rule("contains", <<path>>, patterns, out, 0)
\* if (base_path / path).exists(): <the next `skip` rules>
RGate(path, skip) == Rule("gate", <<path>>, <<>>, None, skip)
\* list(base_path.rglob(pattern))
RSearch(pattern) == Rule("search", <<pattern>>, <<>>, None, 0)
\* return out
RAlways(out) == Rule("always", <<>>, <<>>, out, 0)

Outcome(sig, raised, log) == [sig |-> sig, raised |-> raised, log |-> log]

\* the rules from `rules` on, after the accesses of `log`
RECURSIVE RunFrom(_, _, _, _)
RunFrom(fs, search, rules, log) ==
    IF rules = <<>> THEN Outcome(None, FALSE, log)
    ELSE
      LET r    == Head(rules)
          rest == Tail(rules)
      IN
      CASE r.op = "exists" ->
             LET e == check_file_exists(fs, search, r.paths) IN
             IF e.raised THEN Outcome(None, TRUE, log \o e.log)
             ELSE IF e.val THEN Outcome(r.out, FALSE, log \o e.log)
             ELSE RunFrom(fs, search, rest, log \o e.log)
        [] r.op = "contains" ->
             LET e == check_file_contains(fs, search, r.paths[1], r.patterns)
             IN
             IF e.raised THEN Outcome(None, TRUE, log \o e.log)
             ELSE IF e.val THEN Outcome(r.out, FALSE, log \o e.log)
             ELSE RunFrom(fs, search, rest, log \o e.log)
        [] r.op = "gate" ->
             LET e == check_file_exists(fs, search, r.paths) IN
             IF e.raised THEN Outcome(None, TRUE, log \o e.log)
             ELSE IF e.val THEN RunFrom(fs, search, rest, log \o e.log)
             ELSE RunFrom(fs, search, SubSeq(rest, r.skip + 1, Len(rest)),
                          log \o e.log)
        [] r.op = "search" ->
             RunFrom(fs, search, rest, Append(log, Ev("rglob", r.paths[1])))
        [] OTHER -> Outcome(r.out, FALSE, log)

RunRules(fs, search, rules) == RunFrom(fs, search, rules, <<>>)

\* test_files[:5]
SampleSize == 5

\* a sample one file longer
SampleOneMore(s) ==
    SubSeq(s, 1, IF Len(s) < SampleSize + 1 THEN Len(s) ELSE SampleSize + 1)

\* no cap: every file found is sampled
SampleAll(s) == s

Sample(s) == SubSeq(s, 1, IF Len(s) < SampleSize THEN Len(s) ELSE SampleSize)

---------------------------------------------------------------------------
(* Ecosystem detectors *)

\* the list with its first name left out
pytest_configs_short == <<"pyproject.toml", "setup.cfg", "tox.ini">>

pytest_configs == <<"pytest.ini", "pyproject.toml", "setup.cfg", "tox.ini">>
\* the list without its last name
req_files_short == <<"requirements.txt", "requirements-dev.txt">>

req_files == <<"requirements.txt", "requirements-dev.txt",
               "dev-requirements.txt">>

detect_python_framework(fs, search) ==
    LET test_files == rglob(fs, search, "test", ".py")
        sampled    == Sample(test_files)
    IN  RunRules(fs, search,
          <<RExists(pytest_configs, <<"pytest", 90>>)>>
          \o [i \in 1..Len(req_files) |->
                RContains(req_files[i], <<"pytest">>, <<"pytest", 80>>)]
          \o <<RSearch("test*.py")>>
          \o [i \in 1..Len(sampled) |->
                RContains(sampled[i], <<"import unittest", "from unittest">>,
                          <<"unittest", 70>>)]
          \o (IF test_files # <<>> THEN <<RAlways(<<"pytest", 50>>)>>
              ELSE <<>>))

vitest_configs == <<"vitest.config.ts", "vitest.config.js", "vite.config.ts">>
jest_configs == <<"jest.config.js", "jest.config.ts", "jest.config.json">>

\* the three content checks made on one sampled *.test.ts / *.test.js file
JsFileRules(path) ==
    <<RContains(path, <<"from \"vitest\"", "from 'vitest'">>, <<"vitest", 75>>),
      RContains(path, <<"from \"jest\"", "@jest">>, <<"jest", 75>>),
      RContains(path, <<"from \"mocha\"", "from 'mocha'">>, <<"mocha", 75>>)>>

\* the checks of package.json with the mocha key tried before the jest key
PackageJsonRulesMochaFirst ==
    <<RContains("package.json", <<"\"vitest\"">>, <<"vitest", 85>>),
      RContains("package.json", <<"\"mocha\"">>, <<"mocha", 85>>),
      RContains("package.json", <<"\"jest\"">>, <<"jest", 85>>),
      RContains("package.json", <<"\"test\":", "vitest">>, <<"vitest", 80>>),
      RContains("package.json", <<"\"test\":", "jest">>, <<"jest", 80>>)>>

\* the checks made on package.json once it exists
PackageJsonRules ==
    <<RContains("package.json", <<"\"vitest\"">>, <<"vitest", 85>>),
      RContains("package.json", <<"\"jest\"">>, <<"jest", 85>>),
      RContains("package.json", <<"\"mocha\"">>, <<"mocha", 85>>),
      RContains("package.json", <<"\"test\":", "vitest">>, <<"vitest", 80>>),
      RContains("package.json", <<"\"test\":", "jest">>, <<"jest", 80>>)>>

RECURSIVE Flatten(_)
Flatten(ss) == IF ss = <<>> THEN <<>> ELSE Head(ss) \o Flatten(Tail(ss))

\* the detector with the jest config files tried before the vitest ones
detect_javascript_framework_jest_first(fs, search) ==
    LET test_files == rglob(fs, search, "", ".test.ts")
                      \o rglob(fs, search, "", ".test.js")
        sampled    == Sample(test_files)
    IN  RunRules(fs, search,
          <<RExists(jest_configs, <<"jest", 90>>),
            RExists(vitest_configs, <<"vitest", 90>>),
            RGate("package.json", Len(PackageJsonRules))>>
          \o PackageJsonRules
          \o <<RSearch("*.test.ts"), RSearch("*.test.js")>>
          \o Flatten([i \in 1..Len(sampled) |-> JsFileRules(sampled[i])]))

detect_javascript_framework(fs, search) ==
    LET test_files == rglob(fs, search, "", ".test.ts")
                      \o rglob(fs, search, "", ".test.js")
        sampled    == Sample(test_files)
    IN  RunRules(fs, search,
          <<RExists(vitest_configs, <<"vitest", 90>>),
            RExists(jest_configs, <<"jest", 90>>),
            RGate("package.json", Len(PackageJsonRules))>>
          \o PackageJsonRules
          \o <<RSearch("*.test.ts"), RSearch("*.test.js")>>
          \o Flatten([i \in 1..Len(sampled) |-> JsFileRules(sampled[i])]))

\* the three content checks made on one *.csproj file
CsprojRules(path) ==
    <<RContains(path, <<"xunit", "xUnit">>, <<"xunit", 90>>),
      RContains(path, <<"NUnit", "nunit">>, <<"nunit", 90>>),
      RContains(path, <<"MSTest">>, <<"mstest", 90>>)>>

\* the three content checks made on one sampled *Test.cs / *Tests.cs file
CsFileRules(path) ==
    <<RContains(path, <<"using Xunit", "using xUnit">>, <<"xunit", 80>>),
      RContains(path, <<"using NUnit">>, <<"nunit", 80>>),
      RContains(path, <<"using Microsoft.VisualStudio.TestTools">>,
                <<"mstest", 80>>)>>

\* the detector looking for each framework in all project files in turn,
\* where the code looks for all frameworks in each project file in turn
detect_dotnet_framework_by_framework(fs, search) ==
    LET csproj_files == rglob(fs, search, "", ".csproj")
        test_files   == rglob(fs, search, "", "Test.cs")
                        \o rglob(fs, search, "", "Tests.cs")
        sampled      == Sample(test_files)
    IN  RunRules(fs, search,
          <<RSearch("*.csproj")>>
          \o Flatten([r \in 1..3 |->
                        [i \in 1..Len(csproj_files) |->
                            CsprojRules(csproj_files[i])[r]]])
          \o <<RSearch("*Test.cs"), RSearch("*Tests.cs")>>
          \o Flatten([i \in 1..Len(sampled) |-> CsFileRules(sampled[i])]))

detect_dotnet_framework(fs, search) ==
    LET csproj_files == rglob(fs, search, "", ".csproj")
        test_files   == rglob(fs, search, "", "Test.cs")
                        \o rglob(fs, search, "", "Tests.cs")
        sampled      == Sample(test_files)
    IN  RunRules(fs, search,
          <<RSearch("*.csproj")>>
          \o Flatten([i \in 1..Len(csproj_files) |->
                        CsprojRules(csproj_files[i])])
          \o <<RSearch("*Test.cs"), RSearch("*Tests.cs")>>
          \o Flatten([i \in 1..Len(sampled) |-> CsFileRules(sampled[i])]))

gradle_files == <<"build.gradle", "build.gradle.kts">>

\* the block run for one Gradle build file
GradleRules(path) ==
    <<RGate(path, 2),
      RContains(path, <<"junit-jupiter", "junit 5">>, <<"junit5", 90>>),
      RContains(path, <<"junit:">>, <<"junit4", 90>>)>>

\* the three content checks made on one sampled *Test.java / *Tests.java
JavaFileRules(path) ==
    <<RContains(path, <<"org.junit.jupiter", "@Test">>, <<"junit5", 80>>),
      RContains(path, <<"org.junit.Test", "@Test">>, <<"junit4", 80>>),
      RContains(path, <<"org.testng">>, <<"testng", 80>>)>>

detect_java_framework(fs, search) ==
    LET test_files == rglob(fs, search, "", "Test.java")
                      \o rglob(fs, search, "", "Tests.java")
        sampled    == Sample(test_files)
    IN  RunRules(fs, search,
          <<RGate("pom.xml", 3),
            RContains("pom.xml", <<"junit-jupiter", "junit 5">>,
                      <<"junit5", 90>>),
            RContains("pom.xml", <<"junit", "junit-vintage">>,
                      <<"junit4", 90>>),
            RContains("pom.xml", <<"testng">>, <<"testng", 90>>)>>
          \o Flatten([i \in 1..Len(gradle_files) |->
                        GradleRules(gradle_files[i])])
          \o <<RSearch("*Test.java"), RSearch("*Tests.java")>>
          \o Flatten([i \in 1..Len(sampled) |-> JavaFileRules(sampled[i])]))

\* the detector answering a zero-confidence signal where it has no evidence
detect_go_framework_zero(fs, search) ==
    LET test_files == rglob(fs, search, "", "_test.go")
        sampled    == Sample(test_files)
    IN  RunRules(fs, search,
          <<RSearch("*_test.go")>>
          \o (IF test_files # <<>>
              THEN [i \in 1..Len(sampled) |->
                      RContains(sampled[i], <<"github.com/stretchr/testify">>,
                                <<"go-test-testify", 85>>)]
                   \o <<RAlways(<<"go-test", 90>>)>>
              ELSE <<RAlways(<<"go-test", 0>>)>>))

detect_go_framework(fs, search) ==
    LET test_files == rglob(fs, search, "", "_test.go")
        sampled    == Sample(test_files)
    IN  RunRules(fs, search,
          <<RSearch("*_test.go")>>
          \o (IF test_files # <<>>
              THEN [i \in 1..Len(sampled) |->
                      RContains(sampled[i], <<"github.com/stretchr/testify">>,
                                <<"go-test-testify", 85>>)]
                   \o <<RAlways(<<"go-test", 90>>)>>
              ELSE <<>>))

---------------------------------------------------------------------------
(* The roots the call is run on *)

F(dir, name, text) == File(dir, name, <<Txt(text)>>, "ok")

testify == "import \"github.com/stretchr/testify/assert\""

\* Candidate files.  Files of the same name are alternatives; a root holds
\* at most one of them.
Catalogue ==
    << F("", "pytest.ini", "[pytest]"),
       F("", "pyproject.toml", "[tool.black]"),
       F("", "setup.cfg", "[metadata]"),
       F("", "tox.ini", "[tox]"),
       F("", "requirements.txt", "pytest==7.4"),
       F("", "requirements.txt", "flask"),
       File("", "requirements.txt", <<Txt("py"), Bad, Txt("test")>>, "ok"),
       File("", "requirements.txt", <<Bad, Txt("pytest")>>, "ok"),
       File("", "requirements.txt", <<Txt("fla"), Bad, Txt("sk")>>, "ok"),
       F("", "requirements-dev.txt", "pytest"),
       F("", "dev-requirements.txt", "pytest-cov"),
       F("tests/", "test_a.py", "import unittest"),
       F("tests/", "test_a.py", "import pytest"),
       F("tests/", "test_b.py", "from unittest import TestCase"),
       F("tests/", "test_b.py", "assert True"),
       F("", "vitest.config.ts", ""),
       F("", "vitest.config.js", ""),
       F("", "vite.config.ts", ""),
       F("", "jest.config.js", ""),
       F("", "jest.config.ts", ""),
       F("", "jest.config.json", "{}"),
       F("", "package.json", "{\"devDependencies\":{\"jest\":\"29\"}}"),
       F("", "package.json", "{\"dependencies\":{\"jest\":\"29\",\"vitest\":\"1\"}}"),
       F("", "package.json", "{\"dependencies\":{\"jest\":\"29\",\"mocha\":\"10\"}}"),
       F("", "package.json", "{\"devDependencies\":{\"mocha\":\"10\"}}"),
       F("", "package.json", "{\"scripts\":{\"test\":\"jest\"}}"),
       F("", "package.json", "{\"scripts\":{\"test\":\"vitest run\"}}"),
       F("", "package.json", "{\"scripts\":{\"test\":\"node t.js\"}}"),
       F("", "package.json", "{\"scripts\":{\"test\": \"jest\"}}"),
       F("", "package.json", "{\"name\":\"app\"}"),
       F("src/", "a.test.ts", "import { it } from \"vitest\""),
       F("src/", "a.test.ts", "import '@jest/globals'"),
       F("src/", "b.test.js", "import { it } from 'mocha'"),
       F("src/", "b.test.js", "it('adds')"),
       F("app/", "A.csproj", "<PackageReference Include=\"xunit\" />"),
       F("app/", "A.csproj", "<PackageReference Include=\"MSTest\" />"),
       F("app/", "A.csproj", "<Project />"),
       F("lib/", "B.csproj", "<PackageReference Include=\"NUnit\" />"),
       F("lib/", "B.csproj", "<PackageReference Include=\"xunit\" />"),
       F("app/", "ATest.cs", "using Xunit;"),
       F("app/", "ATest.cs", "using Microsoft.VisualStudio.TestTools;"),
       F("app/", "BTests.cs", "using NUnit.Framework;"),
       F("app/", "BTests.cs", "using System;"),
       F("", "pom.xml", "<artifactId>junit-jupiter</artifactId>"),
       F("", "pom.xml", "<artifactId>junit</artifactId>"),
       F("", "pom.xml", "<artifactId>testng</artifactId>"),
       F("", "pom.xml", "<project />"),
       F("", "build.gradle", "'org.junit.jupiter:junit-jupiter:5.9'"),
       F("", "build.gradle", "'junit:junit:4.13'"),
       F("", "build.gradle", "'org.testng:testng:7.8'"),
       F("", "build.gradle.kts", "(\"junit:junit:4.13\")"),
       F("src/", "ATest.java", "import org.junit.jupiter.api.Test;"),
       F("src/", "ATest.java", "import org.junit.Test; @Test"),
       F("src/", "ATest.java", "import org.testng.annotations.Test; @Test"),
       F("src/", "BTests.java", "import org.testng.Assert;"),
       F("src/", "BTests.java", "class BTests {}"),
       F("pkg/", "a_test.go", testify),
       F("pkg/", "a_test.go", "import \"testing\""),
       F("pkg/", "b_test.go", testify),
       F("pkg/", "b_test.go", "import \"testing\""),
       F("", "package.json", "{\"scripts\":{\"test\":\"jest --ci\"}}"),
       F("app/", "A.csproj",
         "<PackageReference Include=\"MSTest\" /><PackageReference Include=\"NUnit\" />") >>

\* Strictly increasing index sequences of at most k catalogue files with
\* pairwise different paths.
RECURSIVE Picks(_)
Picks(k) ==
    IF k = 0 THEN {<<>>}
    ELSE LET P == Picks(k - 1)
             Full == {s \in P : Len(s) = k - 1}
             Ext(s) == {j \in 1..Len(Catalogue) :
                          /\ \A i \in 1..Len(s) :
                               /\ s[i] < j
                               /\ FullPath(Catalogue[s[i]])
                                    # FullPath(Catalogue[j])}
         IN  P \cup UNION {{Append(s, j) : j \in Ext(s)} : s \in Full}

FilesOf(s) == [i \in 1..Len(s) |-> Catalogue[s[i]]]

\* roots of at most MaxFiles catalogue files
GeneralRoots == {FilesOf(s) : s \in Picks(MaxFiles)}

\* The searched kinds of file: a directory, the name around a letter, the
\* text that carries a marker of the kind and a text that carries none.
Letters == <<"a", "b", "c", "d", "e", "f", "g", "h">>

GlobKinds ==
    << [dir |-> "tests/", pre |-> "test_", suf |-> ".py",
        marked |-> "import unittest", plain |-> "import pytest"],
       [dir |-> "src/", pre |-> "", suf |-> ".test.ts",
        marked |-> "import { it } from \"vitest\"", plain |-> "it('adds')"],
       [dir |-> "app/", pre |-> "", suf |-> ".csproj",
        marked |-> "<PackageReference Include=\"MSTest\" />",
        plain |-> "<Project />"],
       [dir |-> "app/", pre |-> "", suf |-> "Tests.cs",
        marked |-> "using NUnit.Framework;", plain |-> "using System;"],
       [dir |-> "src/", pre |-> "", suf |-> "Test.java",
        marked |-> "import org.testng.Assert;", plain |-> "class T {}"],
       [dir |-> "pkg/", pre |-> "", suf |-> "_test.go",
        marked |-> testify, plain |-> "import \"testing\""] >>

\* n files of one kind, those of `marks` carrying the marker
GlobRoot(g, n, marks) ==
    [i \in 1..n |->
        F(g.dir, g.pre \o Letters[i] \o g.suf,
          IF i \in marks THEN g.marked ELSE g.plain)]

\* roots of up to MaxGlob files of one searched kind
GlobRoots ==
    UNION {UNION {{GlobRoot(GlobKinds[k], n, marks) : marks \in SUBSET (1..n)}
                  : n \in 1..MaxGlob}
           : k \in 1..Len(GlobKinds)}

\* How a file may fail.  A file directly under the root cannot be listed
\* and then gone, or hidden behind an unsearchable directory of its own.
Faults(f) ==
    IF f.dir = "" THEN {"noread", "isdir"}
    ELSE {"noread", "isdir", "vanished", "statdenied"}

\* The catalogue files that are made to fail (one per kind of evidence) and
\* those put beside them (one per tier of each ecosystem), by their place
\* in the catalogue.
FaultIdx == {1, 5, 12, 19, 22, 31, 35, 40, 44, 48, 52, 57}
PeerIdx == {5, 14, 20, 26, 38, 45, 55, 58}

RECURSIVE PeerSets(_)
PeerSets(k) ==
    IF k = 0 THEN {<<>>}
    ELSE LET P == PeerSets(k - 1) IN
         P \cup UNION {{Append(s, j) :
                          j \in {x \in PeerIdx :
                                   \A i \in 1..Len(s) : s[i] < x}}
                       : s \in {t \in P : Len(t) = k - 1}}

\* one failing file and fewer than MaxFiles peers, the failing file placed
\* before or after them
FaultRoots ==
    UNION {UNION {UNION {
        LET bad == [Catalogue[i] EXCEPT !.st = st]
            ok  == FilesOf(s)
        IN  IF \E j \in 1..Len(s) :
                  FullPath(Catalogue[s[j]]) = FullPath(bad)
            THEN {}
            ELSE {<<bad>> \o ok, ok \o <<bad>>}
        : s \in PeerSets(MaxFiles - 1)}
        : st \in Faults(Catalogue[i])}
        : i \in FaultIdx}

\* Fixed-name manifests and project files that carry no marker, to stand
\* beside the files of one searched kind (by its place in GlobKinds).
PlainManifests(k) ==
    CASE k = 1 -> <<F("", "requirements.txt", "flask"),
                    F("", "requirements-dev.txt", "black"),
                    F("", "dev-requirements.txt", "mypy")>>
      [] k = 2 -> <<F("", "package.json", "{\"name\":\"app\"}")>>
      [] k = 4 -> <<F("lib/", "X.csproj", "<Project />"),
                    F("lib/", "Y.csproj", "<Project />")>>
      [] k = 5 -> <<F("", "pom.xml", "<project />"),
                    F("", "build.gradle", "plugins { id 'java' }"),
                    F("", "build.gradle.kts", "plugins { java }")>>
      [] OTHER -> <<>>

\* roots of such manifests and up to MaxGlob test files of their ecosystem,
\* none or the last of them carrying the marker
StackedRoots ==
    UNION {UNION {{PlainManifests(k) \o GlobRoot(GlobKinds[k], n, marks)
                    : marks \in {{}, {n}}}
                  : n \in 1..MaxGlob}
           : k \in {1, 2, 4, 5}}

---------------------------------------------------------------------------
(* The aggregator: detect_test_framework *)

\* the list with its first two detectors exchanged
detectors_javascript_first ==
    <<"javascript", "python", "dotnet", "java", "go">>

\* the list `detectors`, in declaration order
detectors == <<"python", "javascript", "dotnet", "java", "go">>

RunDetectorOf(language, fs, search) ==
    CASE language = "python"     -> detect_python_framework(fs, search)
      [] language = "javascript" -> detect_javascript_framework(fs, search)
      [] language = "dotnet"     -> detect_dotnet_framework(fs, search)
      [] language = "java"       -> detect_java_framework(fs, search)
      [] OTHER                   -> detect_go_framework(fs, search)

NoVerdict == [pending |-> TRUE]

ErrorVerdict(path) == [error |-> "Path does not exist: " \o path]

\* the fallback without its message
UnknownVerdictBare ==
    [framework |-> "unknown", confidence |-> 0, language |-> "unknown"]

UnknownVerdict ==
    [framework |-> "unknown", confidence |-> 0, language |-> "unknown",
     message |-> "No test framework detected"]

Signal(language, sig) ==
    [language |-> language, framework |-> sig[1], confidence |-> sig[2]]

\* max(results, key=lambda x: x['confidence']): a left-to-right scan that
\* replaces the best so far only by a strictly greater key.
RECURSIVE MaxScan(_, _)
MaxScan(best, rest) ==
    IF rest = <<>> THEN best
    ELSE MaxScan(IF Head(rest).confidence > best.confidence
                 THEN Head(rest) ELSE best, Tail(rest))

\* the same scan keeping the last of several equal keys
RECURSIVE MaxScanLast(_, _)
MaxScanLast(best, rest) ==
    IF rest = <<>> THEN best
    ELSE MaxScanLast(IF Head(rest).confidence >= best.confidence
                     THEN Head(rest) ELSE best, Tail(rest))

BestLast(rs) == MaxScanLast(Head(rs), Tail(rs))

Best(rs) == MaxScan(Head(rs), Tail(rs))

\* the call without its existence check
base_path_exists_unchecked(kind) == TRUE

\* Path.exists() of base_path: true for a directory and for a regular file

base_path_exists(kind) == kind # "missing"

Boot ==
    /\ pc = "start"
    /\ idx = 1
    /\ calls = <<>>
    /\ results = <<>>
    /\ probes = <<>>
    /\ verdict = NoVerdict

\* a project directory given by its path
InitDir ==
    /\ project_path = "proj"
    /\ rootKind = "dir"
    /\ rootSearch = TRUE
    /\ files \in GeneralRoots \cup GlobRoots \cup FaultRoots \cup StackedRoots

\* a directory that may be listed and not searched
InitNoSearch ==
    /\ project_path = "proj"
    /\ rootKind = "dir"
    /\ rootSearch = FALSE
    /\ files \in {FilesOf(s) : s \in Picks(1)}

\* no argument: base_path is the current directory
InitCwd ==
    /\ project_path = ""
    /\ rootKind = "dir"
    /\ rootSearch = TRUE
    /\ files \in {FilesOf(s) : s \in Picks(1)}

\* a path that is no directory: nothing is below it
InitNoDir ==
    /\ project_path = "proj"
    /\ rootKind \in {"missing", "file"}
    /\ rootSearch = TRUE
    /\ files = <<>>

Init == Boot /\ (InitDir \/ InitNoSearch \/ InitCwd \/ InitNoDir)

\* lines 188-191: resolve base_path and test that it exists
CheckRoot ==
    /\ pc = "start"
    /\ IF ~base_path_exists(rootKind)
       THEN /\ verdict' = ErrorVerdict(project_path)
            /\ pc' = "done"
       ELSE /\ verdict' = verdict
            /\ pc' = "loop"
    /\ UNCHANGED <<project_path, rootKind, rootSearch, files, idx, calls,
                   results, probes>>

\* lines 203-211: one iteration of the loop over `detectors`
RunDetector ==
    /\ pc = "loop"
    /\ idx <= Len(detectors)
    /\ \E language \in {detectors[idx]} :
       \E o \in {RunDetectorOf(language, files, rootSearch)} :
           /\ calls' = Append(calls, language)
           /\ probes' = probes \o
                  [k \in 1..Len(o.log) |->
                      [det |-> language, op |-> o.log[k].op,
                       path |-> o.log[k].path]]
           /\ IF o.raised
              THEN /\ pc' = "raised"
                   /\ UNCHANGED <<idx, results>>
              ELSE /\ results' = IF o.sig # None
                                 THEN Append(results, Signal(language, o.sig))
                                 ELSE results
                   /\ idx' = idx + 1
                   /\ pc' = IF idx = Len(detectors) THEN "select" ELSE "loop"
    /\ UNCHANGED <<project_path, rootKind, rootSearch, files, verdict>>

\* lines 213-223: the unknown verdict, or the best result
Select ==
    /\ pc = "select"
    /\ verdict' = IF results = <<>> THEN UnknownVerdict ELSE Best(results)
    /\ pc' = "done"
    /\ UNCHANGED <<project_path, rootKind, rootSearch, files, idx, calls,
                   results, probes>>

Next == CheckRoot \/ RunDetector \/ Select

Spec == Init /\ [][Next]_vars

---------------------------------------------------------------------------
(* Properties *)

\* the call has returned a verdict for a base_path that exists
Returned == pc = "done" /\ rootKind # "missing"

\* the call is over: it has returned, or an exception has left it
Over == pc \in {"done", "raised"}

\* what detector `language` answers on the root of this state
SigOf(language) == RunDetectorOf(language, files, rootSearch).sig

\* position of a language in the declaration order
OrderOf(language) == CHOOSE k \in 1..Len(detectors) : detectors[k] = language

\* C1: for every existing root all five detectors run exactly once in the
\* order python, javascript, dotnet, java, go, whether or not an earlier
\* one produced a signal; the signals are collected in that order; and the
\* verdict is the collected signal of maximum confidence, the earliest in
\* that order among equals.
C1_AllRunEarliestMaxWins ==
    /\ calls = SubSeq(detectors, 1, Len(calls))
    /\ \A i \in 1..Len(results) :
          /\ \E k \in 1..Len(calls) : calls[k] = results[i].language
          /\ \A j \in 1..Len(results) :
                i < j => OrderOf(results[i].language)
                           < OrderOf(results[j].language)
    /\ Returned =>
         /\ calls = detectors
         /\ results # <<>> =>
              \E i \in 1..Len(results) :
                 /\ verdict = results[i]
                 /\ \A j \in 1..Len(results) :
                      /\ results[j].confidence <= results[i].confidence
                      /\ j < i => results[j].confidence < results[i].confidence

\* C1 witness: two detectors tie on the maximum and the earlier one wins.
C1_Witness ==
    /\ Returned
    /\ Len(results) >= 2
    /\ results[1].confidence = results[2].confidence
    /\ verdict = results[1]
    /\ verdict.language # results[2].language

\* C2: a root that is not an existing directory (a missing path or a
\* regular file) gets the error verdict at once and no detector is invoked.
C2_NotADirectoryIsAnError ==
    rootKind # "dir" =>
        /\ calls = <<>>
        /\ pc # "start" => (pc = "done" /\ verdict = ErrorVerdict(project_path))

\* C3: for a path that does not exist the call returns the error value and
\* nothing but the initial existence check touches the file system: no
\* detector, no existence probe, no content probe, no recursive search.
C3_MissingRootNoProbing ==
    rootKind = "missing" =>
        /\ calls = <<>>
        /\ probes = <<>>
        /\ results = <<>>
        /\ pc \in {"start", "done"}
        /\ pc = "done" => verdict = [error |-> "Path does not exist: proj"]

\* C3 witness: the call on a missing path has returned.
C3_Witness == rootKind = "missing" /\ pc = "done" /\ verdict # NoVerdict

\* C4: for an existing root the verdict is the fixed unknown verdict if and
\* only if none of the five detectors produced a signal; an existing and
\* empty root yields exactly that verdict.
C4_UnknownIffNoSignal ==
    Returned =>
        LET unknown == [framework |-> "unknown", confidence |-> 0,
                        language |-> "unknown",
                        message |-> "No test framework detected"]
        IN  /\ (verdict = unknown) <=> (results = <<>>)
            /\ IF results = <<>>
               THEN \A k \in 1..Len(detectors) : SigOf(detectors[k]) = None
               ELSE SigOf(results[1].language) # None
            /\ files = <<>> => verdict = unknown

\* C4 witness: the call on an existing directory without files has returned.
C4_Witness == Returned /\ rootKind = "dir" /\ files = <<>>

\* the text the content probe sees in a readable regular file
TextAt(path) ==
    LET f == files[CHOOSE i \in Lookup(files, path) : TRUE]
    IN  decode_ignore(f.content)

Readable(path) ==
    /\ Lookup(files, path) # {}
    /\ files[CHOOSE i \in Lookup(files, path) : TRUE].st = "ok"

Present(path) ==
    /\ Lookup(files, path) # {}
    /\ files[CHOOSE i \in Lookup(files, path) : TRUE].st # "vanished"

\* package.json holds the key "jest" and no vitest or jest config file exists
JestKeyNoConfig ==
    /\ Readable("package.json")
    /\ Contains(TextAt("package.json"), "\"jest\"")
    /\ \A k \in 1..Len(vitest_configs) : ~Present(vitest_configs[k])
    /\ \A k \in 1..Len(jest_configs) : ~Present(jest_configs[k])

JestSignal ==
    [language |-> "javascript", framework |-> "jest", confidence |-> 85]

\* C5 as stated: every root with a package.json containing "jest" and no
\* vitest/jest config file yields framework jest with confidence 85,
\* whatever else package.json and the root contain.
C5_JestKeyAlwaysJest85 ==
    (Returned /\ JestKeyNoConfig) =>
        (verdict.framework = "jest" /\ verdict.confidence = 85)

\* C5 amended: if moreover package.json does not contain "vitest", the
\* JavaScript detector reports (jest, 85), and that signal is the verdict
\* unless another detector reports a confidence above 85.
C5_JestKeyWithoutVitest ==
    (Returned /\ JestKeyNoConfig
       /\ ~Contains(TextAt("package.json"), "\"vitest\"")) =>
        /\ \E i \in 1..Len(results) : results[i] = JestSignal
        /\ (\A i \in 1..Len(results) : results[i].confidence <= 85)
              => verdict = JestSignal
        /\ (\E i \in 1..Len(results) : results[i].confidence > 85)
              => verdict.confidence = 90

\* C5 witness: a package.json with the jest key next to a weaker or equal
\* signal of another ecosystem, and jest at 85 is the verdict.
C5_Witness ==
    /\ Returned
    /\ JestKeyNoConfig
    /\ Len(results) = 2
    /\ verdict = JestSignal

\* the root holds the file pytest.ini and nothing else
OnlyPytestIni ==
    /\ rootKind = "dir"
    /\ Len(files) = 1
    /\ files[1].path = "pytest.ini"

\* C6 as stated: a root holding only pytest.ini yields exactly
\* {language: "dynamic-scripting", framework: "pytest", confidence: 90}.
C6_OnlyPytestIniDynamicScripting ==
    (Returned /\ OnlyPytestIni) =>
        verdict = [language |-> "dynamic-scripting", framework |-> "pytest",
                   confidence |-> 90]

\* C6 amended: a root holding only pytest.ini yields exactly
\* {language: "python", framework: "pytest", confidence: 90}.
C6_OnlyPytestIniPython ==
    (Returned /\ OnlyPytestIni) =>
        verdict = [language |-> "python", framework |-> "pytest",
                   confidence |-> 90]

\* C6 witness: the call on a root holding only pytest.ini has returned.
C6_Witness == Returned /\ OnlyPytestIni /\ project_path = "proj"

\* pattern lists the detectors hand to the content probe
ProbedPatterns ==
    { <<"pytest">>, <<"import unittest", "from unittest">>, <<"\"jest\"">>,
      <<"flask">> }

\* a file with bytes that are not valid UTF-8 which a detector has read
ReadInvalid(i) ==
    /\ HasInvalid(files[i].content)
    /\ \E k \in 1..Len(probes) :
          probes[k].op = "read" /\ probes[k].path = files[i].path

\* C7 as stated: on a file with invalid byte sequences the content probe
\* does not raise and answers false for every pattern list, also when the
\* valid part of the file contains a pattern.
C7_InvalidBytesAlwaysFalse ==
    \A i \in 1..Len(files) :
        ReadInvalid(i) =>
            \A pats \in ProbedPatterns :
                LET p == check_file_contains(files, rootSearch,
                                             files[i].path, pats)
                IN  ~p.raised /\ ~p.val

\* the valid text of a file, its invalid bytes left out
RECURSIVE ValidText(_, _)
ValidText(content, k) ==
    IF k > Len(content) THEN ""
    ELSE IF content[k].valid THEN content[k].bytes \o ValidText(content, k + 1)
    ELSE ValidText(content, k + 1)

\* C7 amended: on a file with invalid byte sequences the content probe
\* does not raise; it answers true exactly when the text that is left once
\* the invalid bytes are dropped contains one of the patterns, and the
\* detector that read the file reports accordingly.
C7_InvalidBytesDropped ==
    \A i \in 1..Len(files) :
        (ReadInvalid(i) /\ files[i].st = "ok") =>
            /\ \A pats \in ProbedPatterns :
                 LET p == check_file_contains(files, rootSearch,
                                              files[i].path, pats)
                 IN  /\ ~p.raised
                     /\ p.val <=>
                          \E k \in 1..Len(pats) :
                             Contains(ValidText(files[i].content, 1), pats[k])
            /\ (files[i].path = "requirements.txt"
                  /\ Contains(ValidText(files[i].content, 1), "pytest")) =>
                 \E j \in 1..Len(results) :
                    results[j] = [language |-> "python",
                                  framework |-> "pytest", confidence |-> 80]

\* C7 witness: a requirements file whose bytes around an invalid byte join
\* to "pytest" has been read and the probe answers true.
C7_Witness ==
    \E i \in 1..Len(files) :
        /\ ReadInvalid(i)
        /\ files[i].content = <<Txt("py"), Bad, Txt("test")>>
        /\ check_file_contains(files, rootSearch, files[i].path,
                               <<"pytest">>).val
        /\ pc = "done"

\* C8: for every existing root the call completes with a verdict and no
\* exception leaves it, whatever file accesses fail during the scan
\* (permission denied on the existence check or on the read, a directory
\* in place of a file, an I/O error, a file that vanishes): the failure
\* counts as "pattern not found" and the remaining detectors still run.
C8_NoExceptionPropagates ==
    rootKind # "missing" =>
        /\ pc # "raised"
        /\ pc \in {"select", "done"} => calls = detectors

\* the *_test.go files in search order
GoFiles == rglob(files, rootSearch, "", "_test.go")

HasTestify(path) ==
    /\ Readable(path)
    /\ Contains(TextAt(path), "github.com/stretchr/testify")

GoResults == {i \in 1..Len(results) : results[i].language = "go"}

\* C9: the Go detector reports (go-test-testify, 85) only if one of the
\* first five *_test.go files in search order contains the testify marker;
\* with six or more such files of which only the sixth contains it, the
\* detector reports the plain (go-test, 90).
C9_GoSamplesFirstFive ==
    (Len(calls) = Len(detectors) /\ pc # "raised") =>
        /\ \A i \in GoResults :
              results[i].framework = "go-test-testify" =>
                 /\ results[i].confidence = 85
                 /\ \E k \in 1..Len(GoFiles) : k <= 5 /\ HasTestify(GoFiles[k])
        /\ (/\ Len(GoFiles) >= 6
            /\ HasTestify(GoFiles[6])
            /\ \A k \in 1..Len(GoFiles) : k # 6 => ~HasTestify(GoFiles[k])) =>
              \E i \in GoResults :
                 results[i] = [language |-> "go", framework |-> "go-test",
                               confidence |-> 90]

\* C9 witness: six *_test.go files, only the sixth with the marker, and the
\* call has returned go-test at 90.
C9_Witness ==
    /\ pc = "done"
    /\ Len(GoFiles) >= 6
    /\ HasTestify(GoFiles[6])
    /\ \A k \in 1..5 : ~HasTestify(GoFiles[k])
    /\ verdict.framework = "go-test"

\* the confidence tiers of each ecosystem
Tiers(language) ==
    CASE language = "python"     -> {50, 70, 80, 90}
      [] language = "javascript" -> {75, 80, 85, 90}
      [] language = "dotnet"     -> {80, 90}
      [] language = "java"       -> {80, 90}
      [] language = "go"         -> {85, 90}
      [] OTHER                   -> {}

\* C10: the confidence of a verdict is one of the tiers of the winning
\* ecosystem, or 0 for the unknown verdict; no detector answers a signal
\* of confidence 0; the aggregator hands on a detector's confidence as is.
C10_ConfidenceTiers ==
    /\ \A i \in 1..Len(results) :
          /\ results[i].confidence # 0
          /\ results[i].confidence \in Tiers(results[i].language)
    /\ Returned =>
          IF verdict.language = "unknown" THEN verdict.confidence = 0
          ELSE /\ verdict.confidence \in Tiers(verdict.language)
               /\ \E i \in 1..Len(results) : verdict = results[i]
               /\ verdict.confidence = SigOf(verdict.language)[2]

\* C10 witness: a verdict of the lowest tier of the second ecosystem.
C10_Witness ==
    /\ Returned
    /\ verdict.language = "javascript"
    /\ verdict.confidence = 75
    /\ Len(files) = 2

\* the files detector `language` has read so far
ReadBy(language) ==
    {probes[k].path : k \in {j \in 1..Len(probes) :
                               /\ probes[j].det = language
                               /\ probes[j].op = "read"}}

\* C11 as stated: during one call each detector content-probes (reads) at
\* most five files, whatever the number of files in the root.
C11_AtMostFiveFilesRead ==
    \A k \in 1..Len(detectors) : Cardinality(ReadBy(detectors[k])) <= 5

\* the fixed-name manifests and build files a detector content-probes
FixedNames(language) ==
    CASE language = "python"     -> {req_files[k] : k \in 1..Len(req_files)}
      [] language = "javascript" -> {"package.json"}
      [] language = "java"       ->
           {"pom.xml"} \cup {gradle_files[k] : k \in 1..Len(gradle_files)}
      [] OTHER                   -> {}

\* the test files a detector's searches find, in the order it samples them
TestFilesOf(language) ==
    CASE language = "python" -> rglob(files, rootSearch, "test", ".py")
      [] language = "javascript" ->
           rglob(files, rootSearch, "", ".test.ts")
           \o rglob(files, rootSearch, "", ".test.js")
      [] language = "dotnet" ->
           rglob(files, rootSearch, "", "Test.cs")
           \o rglob(files, rootSearch, "", "Tests.cs")
      [] language = "java" ->
           rglob(files, rootSearch, "", "Test.java")
           \o rglob(files, rootSearch, "", "Tests.java")
      [] OTHER -> rglob(files, rootSearch, "", "_test.go")

CsprojFiles == rglob(files, rootSearch, "", ".csproj")

SeqRange(s) == {s[k] : k \in 1..Len(s)}

\* C11 amended: the cap of five holds for the test files found by a
\* detector's recursive searches: each detector reads only files among the
\* first five of them.  Besides these it reads its fixed-name manifests
\* (three for Python, one for JavaScript, three for Java, none otherwise)
\* and, in the .NET detector, any *.csproj file found, without a cap.
\* The files read only grow during a call, so they are counted once the
\* call is over.
C11_AtMostFiveSampledFilesRead ==
    /\ \A j \in 1..Len(probes) :
          \E k \in 1..Len(calls) : calls[k] = probes[j].det
    /\ Over => \A k \in 1..Len(calls) :
          \A reads \in {ReadBy(calls[k])} :
          \A tests \in {TestFilesOf(calls[k])} :
          \A others \in {IF calls[k] = "dotnet" THEN SeqRange(CsprojFiles)
                         ELSE FixedNames(calls[k])} :
              /\ reads \subseteq
                    {tests[i] : i \in {j \in 1..Len(tests) : j <= 5}}
                    \cup others
              /\ Cardinality(reads \ others) <= 5
              /\ calls[k] # "dotnet" =>
                    Cardinality(reads)
                       <= 5 + Cardinality(FixedNames(calls[k]))

\* C11 witness: the call has returned after the Python detector read its
\* three requirements files and five test files, eight files in all.
C11_Witness ==
    /\ pc = "done"
    /\ Cardinality(ReadBy("python")) = 8
    /\ Len(TestFilesOf("python")) > 5

AnyPresent(names) == \E k \in 1..Len(names) : Present(names[k])

JsSignal(framework, confidence) ==
    [language |-> "javascript", framework |-> framework,
     confidence |-> confidence]

\* C12: a root holding vitest.config.ts and jest.config.js and nothing else
\* yields the vitest signal with confidence 90.  In the JavaScript detector
\* a vitest config file decides before a jest config file, and either
\* decides before anything package.json says.
C12_VitestConfigBeforeJest ==
    Returned =>
        /\ (/\ Len(files) = 2
            /\ Present("vitest.config.ts")
            /\ Present("jest.config.js")) => verdict = JsSignal("vitest", 90)
        /\ AnyPresent(vitest_configs) =>
              \E i \in 1..Len(results) : results[i] = JsSignal("vitest", 90)
        /\ (~AnyPresent(vitest_configs) /\ AnyPresent(jest_configs)) =>
              \E i \in 1..Len(results) : results[i] = JsSignal("jest", 90)

\* C12 witness: the call on a root of exactly these two config files has
\* returned the vitest signal.
C12_Witness ==
    /\ Returned
    /\ Len(files) = 2
    /\ Present("vitest.config.ts")
    /\ Present("jest.config.js")
    /\ verdict.framework = "vitest"

\* no vitest or jest config file, and a readable package.json that holds
\* none of the keys "vitest", "jest", "mocha"
NoConfigNoKey ==
    /\ ~AnyPresent(vitest_configs)
    /\ ~AnyPresent(jest_configs)
    /\ Readable("package.json")
    /\ ~Contains(TextAt("package.json"), "\"vitest\"")
    /\ ~Contains(TextAt("package.json"), "\"jest\"")
    /\ ~Contains(TextAt("package.json"), "\"mocha\"")

\* package.json has a test-script entry and it mentions `name`
TestScriptRefers(name) ==
    /\ Contains(TextAt("package.json"), "\"test\":")
    /\ Contains(TextAt("package.json"), name)

JsResults == {i \in 1..Len(results) : results[i].language = "javascript"}

\* C13: with no vitest/jest config file and none of the keys "vitest",
\* "jest", "mocha" in package.json, the JavaScript detector reports at
\* confidence 80 the framework the test script refers to: vitest if it
\* refers to vitest, jest if it refers to jest, and no signal of
\* confidence 80 if it refers to neither.
C13_TestScriptFramework ==
    (Returned /\ NoConfigNoKey) =>
        /\ (TestScriptRefers("vitest") /\ ~TestScriptRefers("jest")) =>
              \E i \in JsResults : results[i] = JsSignal("vitest", 80)
        /\ (TestScriptRefers("jest") /\ ~TestScriptRefers("vitest")) =>
              \E i \in JsResults : results[i] = JsSignal("jest", 80)
        /\ (~TestScriptRefers("vitest") /\ ~TestScriptRefers("jest")) =>
              \A i \in JsResults : results[i].confidence # 80

\* the framework a build descriptor declares: the JUnit 5 marker before
\* the JUnit 4 marker before the TestNG marker, "none" without a marker
Declared(path, junit4_marker) ==
    IF ~Readable(path) THEN "none"
    ELSE IF AnyPattern(TextAt(path), <<"junit-jupiter", "junit 5">>)
         THEN "junit5"
    ELSE IF Contains(TextAt(path), junit4_marker) THEN "junit4"
    ELSE IF Contains(TextAt(path), "testng") THEN "testng"
    ELSE "none"

\* the declaration of the first build descriptor that has one: Maven's
\* pom.xml, then build.gradle, then build.gradle.kts
DeclaredByBuild ==
    IF Declared("pom.xml", "junit") # "none" THEN Declared("pom.xml", "junit")
    ELSE IF Declared("build.gradle", "junit:") # "none"
         THEN Declared("build.gradle", "junit:")
    ELSE Declared("build.gradle.kts", "junit:")

JavaSignal(framework, confidence) ==
    [language |-> "java", framework |-> framework, confidence |-> confidence]

\* C14: if pom.xml or a Gradle build file declares a JUnit 5, JUnit 4 or
\* TestNG dependency marker, the Java detector reports the matching
\* framework with confidence 90, Maven consulted before Gradle; a root
\* whose only file is a Gradle build file with a TestNG marker yields
\* testng at 90.
C14_BuildDescriptorFramework ==
    Returned =>
        /\ DeclaredByBuild # "none" =>
              \E i \in 1..Len(results) :
                 results[i] = JavaSignal(DeclaredByBuild, 90)
        /\ (/\ Len(files) = 1
            /\ files[1].path \in {"build.gradle", "build.gradle.kts"}
            /\ Declared(files[1].path, "junit:") = "testng") =>
              verdict = JavaSignal("testng", 90)

\* the sampled *Test.java / *Tests.java files
JavaSampled ==
    LET test_files == TestFilesOf("java")
    IN  SubSeq(test_files, 1, IF Len(test_files) < 5 THEN Len(test_files)
                              ELSE 5)

\* the framework whose import marker a test file carries
ImportedBy(path) ==
    IF ~Readable(path) THEN "none"
    ELSE IF Contains(TextAt(path), "org.junit.jupiter") THEN "junit5"
    ELSE IF Contains(TextAt(path), "org.junit.Test") THEN "junit4"
    ELSE IF Contains(TextAt(path), "org.testng") THEN "testng"
    ELSE "none"

\* the file carries an import marker or the @Test annotation
JavaMarked(path) ==
    \/ ImportedBy(path) # "none"
    \/ Readable(path) /\ Contains(TextAt(path), "@Test")

NoBuildDescriptor ==
    /\ ~Present("pom.xml")
    /\ ~AnyPresent(gradle_files)

\* C15: without a build descriptor, the first sampled *Test.java or
\* *Tests.java file that carries a marker decides at confidence 80: junit5
\* for org.junit.jupiter, junit4 for org.junit.Test, testng for org.testng.
\* A file with the @Test annotation and an org.junit.Test or org.testng
\* import, without org.junit.jupiter, is junit4 resp. testng, not junit5.
C15_SampledJavaFileFramework ==
    (Returned /\ NoBuildDescriptor) =>
        \A k \in 1..Len(JavaSampled) :
            (/\ ImportedBy(JavaSampled[k]) # "none"
             /\ \A j \in 1..(k - 1) : ~JavaMarked(JavaSampled[j])) =>
                \E i \in 1..Len(results) :
                   results[i] = JavaSignal(ImportedBy(JavaSampled[k]), 80)

\* the call is over, the Python detector has run and no exception left it
PythonRan ==
    /\ Over
    /\ Len(calls) >= 1
    /\ ~(pc = "raised" /\ Len(calls) = 1)

\* what the first-match cascade of the claim answers on the root of this
\* state: (pytest, 90), (pytest, 80), (unittest, 70), (pytest, 50) or None
PythonCascade ==
    LET test_files == TestFilesOf("python") IN
    IF \E name \in {"pytest.ini", "pyproject.toml", "setup.cfg", "tox.ini"} :
          Present(name)
    THEN <<"pytest", 90>>
    ELSE IF \E name \in {"requirements.txt", "requirements-dev.txt",
                         "dev-requirements.txt"} :
               Readable(name) /\ Contains(TextAt(name), "pytest")
    THEN <<"pytest", 80>>
    ELSE IF \E k \in 1..Len(test_files) :
               /\ k <= 5
               /\ Readable(test_files[k])
               /\ \/ Contains(TextAt(test_files[k]), "import unittest")
                  \/ Contains(TextAt(test_files[k]), "from unittest")
    THEN <<"unittest", 70>>
    ELSE IF test_files # <<>> THEN <<"pytest", 50>>
    ELSE None

\* C16: the Python detector is a first-match cascade: (pytest, 90) iff one
\* of the four config files exists directly under the root; otherwise
\* (pytest, 80) iff a requirements file contains "pytest"; otherwise
\* (unittest, 70) iff one of the first five test*.py files contains
\* "import unittest" or "from unittest"; otherwise (pytest, 50) iff a
\* test*.py file exists; otherwise no signal.  A requirements file that is
\* missing counts like one that does not match.
C16_PythonCascade ==
    PythonRan =>
        IF PythonCascade = None
        THEN \A i \in 1..Len(results) : results[i].language # "python"
        ELSE /\ results # <<>>
             /\ results[1] = Signal("python", PythonCascade)
             /\ \A i \in 2..Len(results) : results[i].language # "python"

\* C16 witness: requirements.txt is there and does not match,
\* requirements-dev.txt is missing, and a sampled test file makes the
\* cascade answer (unittest, 70).
C16_Witness ==
    /\ pc = "done"
    /\ Readable("requirements.txt")
    /\ ~Present("requirements-dev.txt")
    /\ results # <<>>
    /\ results[1] = [language |-> "python", framework |-> "unittest",
                     confidence |-> 70]

\* one of the four Python config files exists directly under the root
PythonConfigPresent ==
    \E name \in {"pytest.ini", "pyproject.toml", "setup.cfg", "tox.ini"} :
        Present(name)

\* C17: whenever pytest.ini, pyproject.toml, setup.cfg or tox.ini exists
\* directly under an existing root, the verdict is {language: python,
\* framework: pytest, confidence: 90}, whatever evidence of other
\* ecosystems the root holds: no detector answers more than 90 and the
\* Python detector comes first among equals.
C17_PythonConfigDominates ==
    (Returned /\ PythonConfigPresent) =>
        /\ verdict = [language |-> "python", framework |-> "pytest",
                      confidence |-> 90]
        /\ \A i \in 1..Len(results) : results[i].confidence <= 90

\* C17 witness: a Python config file beside evidence on which another
\* ecosystem's detector answers 90 as well, and the verdict is pytest.
C17_Witness ==
    /\ Returned
    /\ PythonConfigPresent
    /\ Len(results) = 2
    /\ results[2].confidence = 90
    /\ verdict.language = "python"

\* the call is over, the .NET detector has run and no exception left it
DotnetRan ==
    /\ Over
    /\ Len(calls) >= 3
    /\ ~(pc = "raised" /\ Len(calls) = 3)

\* the framework a project file names: xunit before nunit before mstest
CsprojMarker(path) ==
    IF ~Readable(path) THEN "none"
    ELSE IF AnyPattern(TextAt(path), <<"xunit", "xUnit">>) THEN "xunit"
    ELSE IF AnyPattern(TextAt(path), <<"NUnit", "nunit">>) THEN "nunit"
    ELSE IF Contains(TextAt(path), "MSTest") THEN "mstest"
    ELSE "none"

DotnetResults == {i \in 1..Len(results) : results[i].language = "dotnet"}

\* C18: the .NET detector goes through all *.csproj files in search order
\* and answers, with confidence 90, the framework of the first project
\* file that contains any marker, within one file xunit before nunit
\* before mstest: an earlier file with only the MSTest marker wins over a
\* later file with the xUnit marker.  The rule on sampled *Test.cs and
\* *Tests.cs files (confidence 80) is reached only when no project file
\* contains a marker.
C18_FirstMarkedProjectFile ==
    DotnetRan =>
        /\ \A k \in 1..Len(CsprojFiles) :
              (/\ CsprojMarker(CsprojFiles[k]) # "none"
               /\ \A j \in 1..(k - 1) : CsprojMarker(CsprojFiles[j]) = "none")
              => \A i \in DotnetResults :
                    /\ results[i].framework = CsprojMarker(CsprojFiles[k])
                    /\ results[i].confidence = 90
        /\ (\E k \in 1..Len(CsprojFiles) :
               CsprojMarker(CsprojFiles[k]) # "none") => DotnetResults # {}
        /\ \A i \in DotnetResults :
              results[i].confidence = 80 =>
                 \A k \in 1..Len(CsprojFiles) :
                    CsprojMarker(CsprojFiles[k]) = "none"

\* C18 witness: a project file with only the MSTest marker found before
\* one with the xUnit marker, and the call has returned mstest at 90.
C18_Witness ==
    /\ pc = "done"
    /\ Len(CsprojFiles) = 2
    /\ CsprojMarker(CsprojFiles[1]) = "mstest"
    /\ CsprojMarker(CsprojFiles[2]) = "xunit"
    /\ verdict = [language |-> "dotnet", framework |-> "mstest",
                  confidence |-> 90]

===========================================================================
